---------------------------- MODULE Spec2Model ----------------------------
(***************************************************************************)
(* A model of src/main.py, the "Universal AI Backend" gateway:             *)
(*   - the provider router           (is_codex_model, should_use_codex)    *)
(*   - the HTTP streaming backend    (openrouter_stream_generator)         *)
(*   - the CLI streaming backend     (codex_stream_generator)              *)
(*   - the device-auth endpoints     (codex_device_auth_start, ...)        *)
(*   - the remote catalog cache      (get_openrouter_models)               *)
(*   - the CLI catalog               (merge_codex_models)                  *)
(*   - the recommendation            (rank_model_for_prompt, recommend_model) *)
(*   - the output sanitizer          (ANSI_ESCAPE_RE, ANSI_ORPHAN_RE)      *)
(* Each component has its own specification (SpecRoute, SpecHttp,          *)
(* SpecCodex, SpecAuth and SpecAuthRace, SpecCache, SpecMerge,             *)
(* SpecRecommend, SpecSanitize) over the shared variables; a component's   *)
(* specification leaves the other components' variables at their initial   *)
(* values.                                                                 *)
(*                                                                         *)
(* Text is a sequence of one-character strings, so that strip(), lower()   *)
(* and split() are computed character by character as Python does.         *)
(***************************************************************************)
EXTENDS Integers, Sequences, FiniteSets, TLC

VARIABLES
    \* ---- provider router (chat_endpoint, lines 360-362)
    route_pc,       \* "request" | "routed"
    model,          \* payload.model
    model_provider, \* payload.model_provider: [some |-> FALSE] is None
    use_codex,      \* the value of use_codex at line 360
    \* ---- HTTP backend (openrouter_stream_generator, lines 313-358)
    h_pc,           \* where the generator is
    h_resume,       \* where it goes on when resumed after a yield
    h_frames,       \* the frames yielded so far, in order
    h_api_key,      \* payload.api_key: [some |-> FALSE] is None
    h_requests,     \* POST requests sent to OPENROUTER_URL
    h_lines,        \* upstream lines consumed from response.aiter_lines()
    h_status,       \* response.status_code; 0 before a response has arrived
    h_body,         \* the number of characters the body of a non-200 response decodes to
    \* ---- CLI backend (codex_stream_generator, lines 235-311)
    c_pc,           \* where the generator is
    c_resume,       \* where it goes on when resumed after a yield
    c_frames,       \* the frames yielded so far, in order
    prompt_file,    \* whether the temporary prompt file exists
    process,        \* "none" | "running" | "exited" | "killed"
    returncode,     \* process.returncode: <<>> is None, <<rc>> an exit status
    stdout_none,    \* whether process.stdout is None
    pipe,           \* the chunks written by the subprocess and not yet read
    eof,            \* whether the subprocess's output stream is closed
    chunks_written, \* the chunks the subprocess has written so far
    auth_error_detected,
    abandoned,      \* whether the consumer has abandoned the stream
    \* ---- device auth (lines 41-42, 425-523)
    CODEX_DEVICE_AUTH_COOLDOWN_UNTIL,   \* the global of line 42, in ticks
    start_pc,       \* per request of /start: "idle" | "running" (login subprocess alive)
    response,       \* what the last step returned to a client; NoResponse if nothing
    limited_until,  \* history, kept by SpecAuthRace alone: the cooldown end set
                    \* by the latest upstream rate limit, 0 if there was none
    \* ---- remote catalog cache (get_openrouter_models, lines 36-37, 104-127)
    MODEL_CACHE,    \* [fetched_at, models]
    call_pc,        \* per call of get_openrouter_models: "idle" | "fetching"
    call_now,       \* per call: the value of now taken at line 105
    fetched_ok,     \* whether a fetch has succeeded since the process started
    cache_result,   \* what the last step of a call did; NoResult if nothing
    \* ---- catalog merge (merge_codex_models, lines 147-185)
    m_pc,           \* "input" | "once" | "twice" | "fed"
    m_dynamic,      \* the argument dynamic_models
    m_first,        \* what the first call returned
    m_catalog,      \* what the latest call returned
    \* ---- recommendation (recommend_model, lines 130-144, 395-422)
    r_pc,           \* "request" | "answered"
    r_message,      \* payload.message
    r_candidates,   \* payload.candidates
    r_response,     \* the JSON answer; NoAnswer before
    \* ---- output sanitizer (lines 39-40, 283-284)
    s_pc,           \* "raw" | "once" | "twice", or "reading" | "streamed"
    s_text,         \* the text given to the sanitizer
    s_clean,        \* the result of sanitizing s_text
    s_again,        \* the result of sanitizing s_clean
    s_unread,       \* the part of s_text the read loop has not read yet
    s_emitted,      \* the content the read loop has yielded so far
    \* ---- wall clock, time.time(); the unit differs per specification
    clock

routeVars == <<route_pc, model, model_provider, use_codex>>
httpVars == <<h_pc, h_resume, h_frames, h_api_key, h_requests, h_lines,
              h_status, h_body>>

codexVars == <<c_pc, c_resume, c_frames, prompt_file, process, returncode,
               stdout_none, pipe, eof, chunks_written, auth_error_detected,
               abandoned>>

authVars == <<CODEX_DEVICE_AUTH_COOLDOWN_UNTIL, start_pc, response>>

cacheVars == <<MODEL_CACHE, call_pc, call_now, fetched_ok, cache_result>>

mergeVars == <<m_pc, m_dynamic, m_first, m_catalog>>

\* the state of the pure functions' specifications
recVars == <<r_pc, r_message, r_candidates, r_response>>

sanVars == <<s_pc, s_text, s_clean, s_again, s_unread, s_emitted>>

pureVars == <<mergeVars, recVars, sanVars>>

vars == <<routeVars, httpVars, codexVars, authVars, limited_until, cacheVars,
          pureVars, clock>>

\* what a step of one component leaves alone
routeRest == <<httpVars, codexVars, authVars, limited_until, cacheVars, pureVars, clock>>
httpRest == <<routeVars, codexVars, authVars, limited_until, cacheVars, pureVars, clock>>
codexRest == <<routeVars, httpVars, authVars, limited_until, cacheVars, pureVars, clock>>
authRest == <<routeVars, httpVars, codexVars, cacheVars, pureVars>>
cacheRest == <<routeVars, httpVars, codexVars, authVars, limited_until, pureVars>>
serverVars == <<routeVars, httpVars, codexVars, authVars, limited_until, cacheVars, clock>>
mergeRest == <<serverVars, recVars, sanVars>>
recRest == <<serverVars, mergeVars, sanVars>>
sanRest == <<serverVars, mergeVars, recVars>>

(***************************************************************************)
(* Bounds of the model.                                                    *)
(***************************************************************************)
\* model identifiers are concatenations of at most MaxIdPieces pieces
MaxIdPieces == 3
\* provider hints are concatenations of at most MaxHintPieces pieces
MaxHintPieces == 2

(***************************************************************************)
(* Text helpers: Python's str.lower, str.strip, str.split("/", 1).         *)
(***************************************************************************)
Uppers == <<"A", "B", "C", "D", "E", "F", "G", "H", "I", "J", "K", "L", "M",
            "N", "O", "P", "Q", "R", "S", "T", "U", "V", "W", "X", "Y", "Z">>
Lowers == <<"a", "b", "c", "d", "e", "f", "g", "h", "i", "j", "k", "l", "m",
            "n", "o", "p", "q", "r", "s", "t", "u", "v", "w", "x", "y", "z">>

IsUpper(c) == \E i \in 1..Len(Uppers) : Uppers[i] = c
IsLower(c) == \E i \in 1..Len(Lowers) : Lowers[i] = c

LowerChar(c) ==
    IF IsUpper(c) THEN Lowers[CHOOSE i \in 1..Len(Uppers) : Uppers[i] = c] ELSE c

UpperChar(c) ==
    IF IsLower(c) THEN Uppers[CHOOSE i \in 1..Len(Lowers) : Lowers[i] = c] ELSE c

lower(s) == [i \in 1..Len(s) |-> LowerChar(s[i])]

IsSpace(c) == c = " "

RECURSIVE lstrip(_)
lstrip(s) == IF s # <<>> /\ IsSpace(Head(s)) THEN lstrip(Tail(s)) ELSE s

RECURSIVE rstrip(_)
rstrip(s) ==
    IF s # <<>> /\ IsSpace(s[Len(s)]) THEN rstrip(SubSeq(s, 1, Len(s) - 1)) ELSE s

strip(s) == rstrip(lstrip(s))

\* k in s, for strings
Contains(s, k) ==
    \E i \in 1..(Len(s) - Len(k) + 1) : \A j \in 1..Len(k) : s[i + j - 1] = k[j]

\* s.replace(a, " "), for a single character a
ReplaceBySpace(s, a) == [i \in 1..Len(s) |-> IF s[i] = a THEN " " ELSE s[i]]

\* s.title(): a letter is upper-cased when no letter stands before it, and
\* lower-cased otherwise
title(s) ==
    [i \in 1..Len(s) |->
        IF IsUpper(s[i]) \/ IsLower(s[i])
          THEN IF i > 1 /\ (IsUpper(s[i - 1]) \/ IsLower(s[i - 1]))
                 THEN LowerChar(s[i])
                 ELSE UpperChar(s[i])
          ELSE s[i]]

\* "/" in s
HasSlash(s) == \E i \in 1..Len(s) : s[i] = "/"

\* s.split("/", 1)[1], for s that holds a "/"
AfterFirstSlash(s) ==
    LET i == CHOOSE k \in 1..Len(s) :
                 s[k] = "/" /\ \A j \in 1..(k - 1) : s[j] # "/"
    IN  SubSeq(s, i + 1, Len(s))

\* the literals of lines 192, 201 and 203
Gpt53 == <<"g", "p", "t", "-", "5", ".", "3">>
Gpt52 == <<"g", "p", "t", "-", "5", ".", "2">>
CodexOnly == {Gpt53, Gpt52}
CodexWord == <<"c", "o", "d", "e", "x">>
OpenrouterWord == <<"o", "p", "e", "n", "r", "o", "u", "t", "e", "r">>

(***************************************************************************)
(* The state of a component that is not running: what every other          *)
(* component's specification starts it in and leaves it in.                *)
(***************************************************************************)
RouteIdle ==
    /\ route_pc = "request"
    /\ model = <<"x">>
    /\ model_provider = [some |-> FALSE]
    /\ use_codex = FALSE

HttpIdle ==
    /\ h_pc = "start"
    /\ h_resume = "start"
    /\ h_frames = <<>>
    /\ h_api_key = [some |-> FALSE]
    /\ h_requests = 0
    /\ h_lines = 0
    /\ h_status = 0
    /\ h_body = 0

CodexIdle ==
    /\ c_pc = "start"
    /\ c_resume = "start"
    /\ c_frames = <<>>
    /\ prompt_file = FALSE
    /\ process = "none"
    /\ returncode = <<>>
    /\ stdout_none = FALSE
    /\ pipe = <<>>
    /\ eof = FALSE
    /\ chunks_written = 0
    /\ auth_error_detected = FALSE
    /\ abandoned = FALSE

MergeIdle ==
    /\ m_pc = "input"
    /\ m_dynamic = [some |-> FALSE]
    /\ m_first = <<>>
    /\ m_catalog = <<>>

NoAnswer == [status |-> 0, recommended |-> <<>>, ranked |-> <<>>, reason |-> "none"]

RecIdle ==
    /\ r_pc = "request"
    /\ r_message = <<"x">>
    /\ r_candidates = <<>>
    /\ r_response = NoAnswer

SanIdle ==
    /\ s_pc = "raw"
    /\ s_text = <<>>
    /\ s_clean = <<>>
    /\ s_again = <<>>
    /\ s_unread = <<>>
    /\ s_emitted = <<>>

PureIdle == MergeIdle /\ RecIdle /\ SanIdle

\* the requests of /api/codex/device-auth/start that SpecAuth has in flight at
\* once (a burst of concurrent requests is what SpecAuthRace runs)
MaxRequests == 1
Requests == 1..MaxRequests

NoResponse == [op |-> "none", status |-> 0, retry_after_seconds |-> <<>>,
               launched |-> FALSE]

AuthIdle ==
    /\ CODEX_DEVICE_AUTH_COOLDOWN_UNTIL = 0
    /\ start_pc = [r \in Requests |-> "idle"]
    /\ response = NoResponse
    /\ limited_until = 0

\* the concurrent calls of get_openrouter_models
MaxCalls == 2
Calls == 1..MaxCalls

\* key is the api_key a step has sent upstream in its Authorization header
NoResult == [op |-> "none", call |-> 0, models |-> <<>>, key |-> "none"]

CacheIdle ==
    /\ MODEL_CACHE = [fetched_at |-> 0, models |-> <<>>]
    /\ call_pc = [c \in Calls |-> "idle"]
    /\ call_now = [c \in Calls |-> 0]
    /\ fetched_ok = FALSE
    /\ cache_result = NoResult

(***************************************************************************)
(* The provider router.                                                    *)
(***************************************************************************)
is_codex_model(model_id) ==
    LET stripped == lower(strip(model_id))
        normalized == IF HasSlash(stripped) THEN AfterFirstSlash(stripped)
                      ELSE stripped
    IN  normalized \in CodexOnly

\* model_provider or ""
OrEmpty(p) == IF p.some THEN p.val ELSE <<>>

\* a router that trusts the provider hint before it looks at the model id
should_use_codex_HintFirst(model_id, provider_hint) ==
    LET provider == lower(strip(OrEmpty(provider_hint)))
    IN  IF provider = CodexWord THEN TRUE
        ELSE IF provider = OpenrouterWord THEN FALSE
        ELSE is_codex_model(model_id)

\* a router that compares the hint as sent, neither trimmed nor lower-cased
should_use_codex_RawHint(model_id, provider_hint) ==
    IF is_codex_model(model_id) THEN TRUE
    ELSE IF OrEmpty(provider_hint) = CodexWord THEN TRUE
    ELSE FALSE

should_use_codex(model_id, provider_hint) ==
    IF is_codex_model(model_id) THEN TRUE
    ELSE LET provider == lower(strip(OrEmpty(provider_hint)))
         IN  IF provider = CodexWord THEN TRUE
             ELSE IF provider = OpenrouterWord THEN FALSE
             ELSE FALSE

codex_cli_model_id(model_id) ==
    LET normalized == lower(strip(model_id))
    IN  IF HasSlash(normalized) THEN AfterFirstSlash(normalized) ELSE normalized

\* the requests the router is checked on
IdPieces == { <<" ">>, <<"/">>, Gpt53,
              <<"G", "P", "T", "-", "5", ".", "2">>, <<"x">> }
HintPieces == { <<" ">>, CodexWord, <<"C", "o", "D", "e", "X">>, OpenrouterWord }

RECURSIVE Concats(_, _)
Concats(pieces, n) ==
    IF n = 0 THEN { <<>> }
    ELSE LET shorter == Concats(pieces, n - 1)
         IN  shorter \cup { s \o p : s \in shorter, p \in pieces }

\* ChatPayload.model has min_length=1 (line 54)
ModelIds == Concats(IdPieces, MaxIdPieces) \ { <<>> }
ProviderHints == { [some |-> FALSE] }
                 \cup { [some |-> TRUE, val |-> h] : h \in Concats(HintPieces, MaxHintPieces) }

InitRoute ==
    /\ route_pc = "request"
    /\ model \in ModelIds
    /\ model_provider \in ProviderHints
    /\ use_codex = FALSE
    /\ HttpIdle
    /\ CodexIdle
    /\ AuthIdle
    /\ CacheIdle
    /\ PureIdle
    /\ clock = 0

\* chat_endpoint, line 360: the backend is chosen
chat_endpoint ==
    /\ route_pc = "request"
    /\ use_codex' = should_use_codex(model, model_provider)
    /\ route_pc' = "routed"
    /\ UNCHANGED <<model, model_provider, routeRest>>

NextRoute == chat_endpoint

SpecRoute == InitRoute /\ [][NextRoute]_vars

\* C6: a model identifier whose normalized form (trimmed, lower-cased, the
\* namespace before the first "/" removed) is gpt-5.3 or gpt-5.2 is routed to
\* the CLI backend whatever the provider hint is, "openrouter" and None included.
C6_IdentifierBeatsHint ==
    (route_pc = "routed" /\ codex_cli_model_id(model) \in CodexOnly)
        => use_codex = TRUE

\* a namespaced, upper-case CLI-only identifier sent with an "openrouter"
\* hint has been routed to the CLI backend
C6_Witness ==
    /\ route_pc = "routed"
    /\ HasSlash(model)
    /\ model # lower(model)
    /\ codex_cli_model_id(model) \in CodexOnly
    /\ model_provider.some
    /\ lower(strip(model_provider.val)) = OpenrouterWord
    /\ use_codex = TRUE

\* C7: a model identifier outside the CLI-only set is routed to the CLI
\* backend exactly when the provider hint, trimmed and lower-cased, is "codex";
\* "openrouter", no hint and any other hint go to the HTTP backend.
C7_HintFallback ==
    (route_pc = "routed" /\ codex_cli_model_id(model) \notin CodexOnly)
        => (use_codex <=> lower(strip(OrEmpty(model_provider))) = CodexWord)

\* a hint that is "codex" only after trimming and lower-casing has sent a
\* model outside the CLI-only set to the CLI backend
C7_Witness ==
    /\ route_pc = "routed"
    /\ codex_cli_model_id(model) \notin CodexOnly
    /\ model_provider.some
    /\ model_provider.val # CodexWord
    /\ lower(strip(model_provider.val)) = CodexWord
    /\ use_codex = TRUE

(***************************************************************************)
(* The HTTP backend: openrouter_stream_generator (lines 313-358).          *)
(* A frame is a record [kind, info]; kind is "data" (a forwarded upstream  *)
(* line or a content frame), "error" or "done" ("data: [DONE]\n\n").  An    *)
(* upstream line "data: [DONE]" is forwarded as the same text as the       *)
(* generator's own terminal frame, so both are the frame DoneFrame.        *)
(* A yield suspends the generator (pc "suspended") until it is resumed.    *)
(***************************************************************************)
\* the most upstream lines one response carries
MaxLines == 3

DoneFrame == [kind |-> "done", info |-> "[DONE]"]
ErrorFrame(what) == [kind |-> "error", info |-> what]
DataFrame(what) == [kind |-> "data", info |-> what]

\* the error frame of lines 343-347: the status and the detail (its length)
StatusErrorFrame(status, detail) ==
    [kind |-> "error", info |-> "status", status |-> status, detail |-> detail]

\* line 342: the slice [:600]
DetailLimit == 600

details_NoCut(body) == body

\* line 342: body.decode("utf-8", errors="ignore")[:600], by its length
details(body) == IF body > DetailLimit THEN DetailLimit ELSE body

\* the lengths of the decoded body of a non-200 response
BodyLens == {0, DetailLimit - 1, DetailLimit, DetailLimit + 1}

NoApiKey_NoneOnly(k) == ~k.some

\* not payload.api_key: None and the empty string are both falsy
NoApiKey(k) == ~k.some \/ k.val = <<>>

ApiKeys == { [some |-> FALSE], [some |-> TRUE, val |-> <<>>],
             [some |-> TRUE, val |-> <<"k">>] }

\* what the upstream answers: 200, or a status other than 200
Statuses == {200, 401, 500}

\* the lines response.aiter_lines() may give: an empty line, an SSE comment
\* (": OPENROUTER PROCESSING"), a "data: {...}" line, a "data: [DONE]" line
LineKinds == {"empty", "comment", "data", "done"}

\* chunk.startswith("data:")
StartsWithData(line) == line \in {"data", "done"}

InitHttp ==
    /\ RouteIdle
    /\ CodexIdle
    /\ AuthIdle
    /\ CacheIdle
    /\ PureIdle
    /\ h_pc = "start"
    /\ h_resume = "start"
    /\ h_frames = <<>>
    /\ h_api_key \in ApiKeys
    /\ h_requests = 0
    /\ h_lines = 0
    /\ h_status = 0
    /\ h_body = 0
    /\ clock = 0

HttpYield(frame, next) ==
    /\ h_frames' = Append(h_frames, frame)
    /\ h_pc' = "suspended"
    /\ h_resume' = next

HttpGoto(next) ==
    /\ h_pc' = next
    /\ UNCHANGED <<h_frames, h_resume>>

\* lines 314-335: the first resumption runs to the credential check
HttpStart ==
    /\ h_pc = "start"
    /\ IF NoApiKey(h_api_key)
         THEN HttpYield(ErrorFrame("api key required"), "nokey_done")
         ELSE HttpGoto("connect")
    /\ UNCHANGED <<h_api_key, h_requests, h_lines, h_status, h_body, httpRest>>

\* the consumer asks for the next frame: the generator goes on after its yield
HttpResume ==
    /\ h_pc = "suspended"
    /\ h_pc' = h_resume
    /\ UNCHANGED <<h_resume, h_frames, h_api_key, h_requests, h_lines, h_status, h_body, httpRest>>

\* lines 325-326
HttpNoKeyDone ==
    /\ h_pc = "nokey_done"
    /\ HttpYield(DoneFrame, "return")
    /\ UNCHANGED <<h_api_key, h_requests, h_lines, h_status, h_body, httpRest>>

\* lines 338-340: the request is sent and the response head arrives; body is
\* what a non-200 response carries
HttpResponse(status, body) ==
    /\ h_pc = "connect"
    /\ h_requests' = h_requests + 1
    /\ h_status' = status
    /\ h_body' = IF status # 200 THEN body ELSE 0
    /\ HttpGoto(IF status # 200 THEN "aread" ELSE "lines")
    /\ UNCHANGED <<h_api_key, h_lines, httpRest>>

\* lines 338-339: connecting or sending raises (httpx.ConnectError, a timeout)
HttpConnectRaises ==
    /\ h_pc = "connect"
    /\ h_requests' = h_requests + 1
    /\ HttpGoto("except")
    /\ UNCHANGED <<h_api_key, h_lines, h_status, h_body, httpRest>>

\* lines 341-347: the body of a non-200 response is read and reported
HttpStatusError ==
    /\ h_pc = "aread"
    /\ HttpYield(StatusErrorFrame(h_status, details(h_body)), "status_done")
    /\ UNCHANGED <<h_api_key, h_requests, h_lines, h_status, h_body, httpRest>>

\* line 341: response.aread() raises
HttpAreadRaises ==
    /\ h_pc = "aread"
    /\ HttpGoto("except")
    /\ UNCHANGED <<h_api_key, h_requests, h_lines, h_status, h_body, httpRest>>

\* lines 348-349
HttpStatusDone ==
    /\ h_pc = "status_done"
    /\ HttpYield(DoneFrame, "return")
    /\ UNCHANGED <<h_api_key, h_requests, h_lines, h_status, h_body, httpRest>>

\* lines 351-355: one upstream line; only "data:" lines are forwarded
HttpLine(line) ==
    /\ h_pc = "lines"
    /\ h_lines < MaxLines
    /\ h_lines' = h_lines + 1
    /\ IF StartsWithData(line)
         THEN HttpYield(IF line = "done" THEN DoneFrame ELSE DataFrame("upstream"),
                        "lines")
         ELSE HttpGoto("lines")
    /\ UNCHANGED <<h_api_key, h_requests, h_status, h_body, httpRest>>

\* line 351: the upstream closes the stream; the generator falls off its end
HttpEndOfStream ==
    /\ h_pc = "lines"
    /\ HttpGoto("closed")
    /\ UNCHANGED <<h_api_key, h_requests, h_lines, h_status, h_body, httpRest>>

\* line 351: reading the next line raises (httpx.ReadError, a read timeout)
HttpLineRaises ==
    /\ h_pc = "lines"
    /\ HttpGoto("except")
    /\ UNCHANGED <<h_api_key, h_requests, h_lines, h_status, h_body, httpRest>>

\* lines 356-357
HttpExcept ==
    /\ h_pc = "except"
    /\ HttpYield(ErrorFrame("exception"), "except_done")
    /\ UNCHANGED <<h_api_key, h_requests, h_lines, h_status, h_body, httpRest>>

\* line 358
HttpExceptDone ==
    /\ h_pc = "except_done"
    /\ HttpYield(DoneFrame, "return")
    /\ UNCHANGED <<h_api_key, h_requests, h_lines, h_status, h_body, httpRest>>

\* lines 326, 349 and the end of the body: the generator is exhausted
HttpReturn ==
    /\ h_pc = "return"
    /\ HttpGoto("closed")
    /\ UNCHANGED <<h_api_key, h_requests, h_lines, h_status, h_body, httpRest>>

NextHttp ==
    \/ HttpStart
    \/ HttpResume
    \/ HttpNoKeyDone
    \/ \E status \in Statuses, body \in BodyLens : HttpResponse(status, body)
    \/ HttpConnectRaises
    \/ HttpStatusError
    \/ HttpAreadRaises
    \/ HttpStatusDone
    \/ \E line \in LineKinds : HttpLine(line)
    \/ HttpEndOfStream
    \/ HttpLineRaises
    \/ HttpExcept
    \/ HttpExceptDone
    \/ HttpReturn

SpecHttp == InitHttp /\ [][NextHttp]_vars

\* the frames of a sequence that are the terminal "data: [DONE]" frame
DoneCount(frames) == Cardinality({ i \in 1..Len(frames) : frames[i] = DoneFrame })

\* exactly one done frame, and it is the last frame
EndsWithOneDone(frames) ==
    /\ DoneCount(frames) = 1
    /\ frames[Len(frames)] = DoneFrame

\* C1: whatever the upstream does (no credential, a non-200 status, a 200
\* stream that ends with or without an upstream "data: [DONE]" line, an
\* exception after 0, 1 or many forwarded lines), the frames the HTTP backend
\* has yielded when it ends hold exactly one done frame, and it is the last.
C1_HttpEndsWithOneDone ==
    h_pc = "closed" => EndsWithOneDone(h_frames)

\* C16: when the request carries no credential (none, or the empty string),
\* the stream of the HTTP backend is exactly one error frame followed by
\* done, and no request is ever sent to the upstream.
C16_NoCredential ==
    (~h_api_key.some \/ h_api_key.val = <<>>)
        => /\ h_requests = 0
           /\ h_status = 0
           /\ \E n \in 0..2 :
                  h_frames = SubSeq(<<ErrorFrame("api key required"), DoneFrame>>, 1, n)
           /\ h_pc = "closed"
                  => h_frames = <<ErrorFrame("api key required"), DoneFrame>>

\* a request whose credential is the empty string has been answered in full
C16_Witness ==
    /\ h_api_key = [some |-> TRUE, val |-> <<>>]
    /\ h_pc = "closed"
    /\ h_frames = <<ErrorFrame("api key required"), DoneFrame>>
    /\ h_requests = 0

MaxChunks == 2
\* the most chunks waiting in the pipe
MaxPipe == 2

ChunkKinds == {"text", "auth", "ansi", "invalid", "auth_head", "auth_tail"}
ExitStatuses == {0, 1}

InitCodex ==
    /\ RouteIdle
    /\ HttpIdle
    /\ CodexIdle
    /\ AuthIdle
    /\ CacheIdle
    /\ PureIdle
    /\ clock = 0

CodexYield(frame, next) ==
    /\ c_frames' = Append(c_frames, frame)
    /\ c_pc' = "suspended"
    /\ c_resume' = next

CodexGoto(next) ==
    /\ c_pc' = next
    /\ UNCHANGED <<c_frames, c_resume>>

procVars == <<process, returncode, stdout_none, pipe, eof, chunks_written>>

\* lines 236-256: the prompt is written to a temporary file
CodexStart ==
    /\ c_pc = "start"
    /\ prompt_file' = TRUE
    /\ CodexGoto("spawn")
    /\ UNCHANGED <<procVars, auth_error_detected, abandoned, codexRest>>

\* lines 249-251: the temporary file cannot be written (OSError); this is
\* outside the try block, so the exception leaves the generator
CodexTempfileRaises ==
    /\ c_pc = "start"
    /\ CodexGoto("raised")
    /\ UNCHANGED <<prompt_file, procVars, auth_error_detected, abandoned, codexRest>>

\* the consumer asks for the next frame: the generator goes on after its yield
CodexResume ==
    /\ c_pc = "suspended"
    /\ c_pc' = c_resume
    /\ UNCHANGED <<c_resume, c_frames, prompt_file, procVars, auth_error_detected,
                   abandoned, codexRest>>

\* lines 258-266: the subprocess is created and the prompt written to its stdin
CodexSpawn(no_stdout) ==
    /\ c_pc = "spawn"
    /\ process' = "running"
    /\ stdout_none' = no_stdout
    /\ CodexGoto("drain")
    /\ UNCHANGED <<prompt_file, returncode, pipe, eof, chunks_written,
                   auth_error_detected, abandoned, codexRest>>

\* line 258: create_subprocess_exec raises (the codex binary is not installed)
CodexSpawnRaises ==
    /\ c_pc = "spawn"
    /\ CodexGoto("except")
    /\ UNCHANGED <<prompt_file, procVars, auth_error_detected, abandoned, codexRest>>

\* lines 267-273: stdin is drained and closed; then the stdout check
CodexDrained ==
    /\ c_pc = "drain"
    /\ IF stdout_none
         THEN CodexYield(ErrorFrame("output stream unavailable"), "unavail_done")
         ELSE CodexGoto("read")
    /\ UNCHANGED <<prompt_file, procVars, auth_error_detected, abandoned, codexRest>>

\* line 267: drain() raises (BrokenPipeError, ConnectionResetError)
CodexDrainRaises ==
    /\ c_pc = "drain"
    /\ CodexGoto("except")
    /\ UNCHANGED <<prompt_file, procVars, auth_error_detected, abandoned, codexRest>>

\* lines 272-273: yield done, then return: the return runs the finally block
CodexUnavailDone ==
    /\ c_pc = "unavail_done"
    /\ CodexYield(DoneFrame, "finally")
    /\ UNCHANGED <<prompt_file, procVars, auth_error_detected, abandoned, codexRest>>

\* lines 276-290: read(1024) returns a chunk
CodexReadChunk ==
    /\ c_pc = "read"
    /\ pipe # <<>>
    /\ pipe' = Tail(pipe)
    /\ IF Head(pipe) = "invalid"
         THEN /\ CodexGoto("read")
              /\ UNCHANGED auth_error_detected
         ELSE /\ auth_error_detected' = (auth_error_detected \/ Head(pipe) = "auth")
              /\ CodexYield(DataFrame(Head(pipe)), "read")
    /\ UNCHANGED <<prompt_file, process, returncode, stdout_none, eof, chunks_written,
                   abandoned, codexRest>>

\* lines 276-278: read(1024) returns b"" at the end of the output
CodexReadEof ==
    /\ c_pc = "read"
    /\ pipe = <<>>
    /\ eof
    /\ CodexGoto("wait")
    /\ UNCHANGED <<prompt_file, procVars, auth_error_detected, abandoned, codexRest>>

\* line 276: read raises
CodexReadRaises ==
    /\ c_pc = "read"
    /\ CodexGoto("except")
    /\ UNCHANGED <<prompt_file, procVars, auth_error_detected, abandoned, codexRest>>

\* lines 292-301: process.wait() returns once the subprocess has exited
CodexWait ==
    /\ c_pc = "wait"
    /\ process = "exited"
    /\ IF returncode # <<0>>
         THEN CodexYield(ErrorFrame(IF auth_error_detected THEN "not authenticated"
                                    ELSE "execution failed"), "finally")
         ELSE CodexGoto("finally")
    /\ UNCHANGED <<prompt_file, procVars, auth_error_detected, abandoned, codexRest>>

\* lines 302-303
CodexExcept ==
    /\ c_pc = "except"
    /\ CodexYield(ErrorFrame("exception"), "finally")
    /\ UNCHANGED <<prompt_file, procVars, auth_error_detected, abandoned, codexRest>>

ProcessAfterFinally_NoKill(proc, rc) == proc

\* lines 308-309: process.kill() if process is not None and its returncode is None
ProcessAfterFinally(proc, rc) ==
    IF proc # "none" /\ rc = <<>> THEN "killed" ELSE proc

\* lines 304-311: the prompt file is removed, a subprocess that has not
\* exited is killed, and done is yielded.  When the consumer has abandoned
\* the stream, that yield is the generator's last step: it is closed there.
CodexFinally ==
    /\ c_pc = "finally"
    /\ prompt_file' = FALSE
    /\ process' = ProcessAfterFinally(process, returncode)
    /\ IF abandoned
         THEN /\ c_frames' = Append(c_frames, DoneFrame)
              /\ c_pc' = "aborted"
              /\ c_resume' = "return"
         ELSE CodexYield(DoneFrame, "return")
    /\ UNCHANGED <<returncode, stdout_none, pipe, eof, chunks_written,
                   auth_error_detected, abandoned, codexRest>>

\* the end of the body: the generator is exhausted
CodexReturn ==
    /\ c_pc = "return"
    /\ CodexGoto("closed")
    /\ UNCHANGED <<prompt_file, procVars, auth_error_detected, abandoned, codexRest>>

\* the consumer abandons the stream (the client disconnects) while the
\* generator is suspended inside the try statement of lines 256-311: at the
\* awaits of lines 258-267, 276 and 292 asyncio.CancelledError is raised, at a
\* yield GeneratorExit is; neither is an Exception, so line 302 does not
\* catch them and the finally block runs.  At the yield of line 311 the
\* finally block has already run and the generator is closed at once.
CodexAbandon ==
    /\ ~abandoned
    /\ c_pc \in {"spawn", "drain", "read", "wait", "suspended"}
    /\ abandoned' = TRUE
    /\ IF c_pc = "suspended" /\ c_resume = "return"
         THEN CodexGoto("aborted")
         ELSE CodexGoto("finally")
    /\ UNCHANGED <<prompt_file, procVars, auth_error_detected, codexRest>>

\* the subprocess writes a chunk to its output
ProcWrite(chunk) ==
    /\ process = "running"
    /\ ~eof
    /\ Len(pipe) < MaxPipe
    /\ chunks_written < MaxChunks
    /\ pipe' = Append(pipe, chunk)
    /\ chunks_written' = chunks_written + 1
    /\ UNCHANGED <<c_pc, c_resume, c_frames, prompt_file, process, returncode,
                   stdout_none, eof, auth_error_detected, abandoned, codexRest>>

\* the subprocess closes its output and keeps running
ProcCloseStdout ==
    /\ process = "running"
    /\ ~eof
    /\ eof' = TRUE
    /\ UNCHANGED <<c_pc, c_resume, c_frames, prompt_file, process, returncode,
                   stdout_none, pipe, chunks_written, auth_error_detected,
                   abandoned, codexRest>>

\* the subprocess exits with a status; its output ends
ProcExit(rc) ==
    /\ process = "running"
    /\ process' = "exited"
    /\ returncode' = <<rc>>
    /\ eof' = TRUE
    /\ UNCHANGED <<c_pc, c_resume, c_frames, prompt_file, stdout_none, pipe,
                   chunks_written, auth_error_detected, abandoned, codexRest>>

\* the generator's steps that the event loop runs as soon as they are ready
CodexScheduled ==
    \/ CodexStart
    \/ CodexResume
    \/ \E no_stdout \in BOOLEAN : CodexSpawn(no_stdout)
    \/ CodexDrained
    \/ CodexUnavailDone
    \/ CodexReadChunk
    \/ CodexReadEof
    \/ CodexWait
    \/ CodexExcept
    \/ CodexFinally
    \/ CodexReturn

NextCodex ==
    \/ CodexStart
    \/ CodexTempfileRaises
    \/ CodexResume
    \/ \E no_stdout \in BOOLEAN : CodexSpawn(no_stdout)
    \/ CodexSpawnRaises
    \/ CodexDrained
    \/ CodexDrainRaises
    \/ CodexUnavailDone
    \/ CodexReadChunk
    \/ CodexReadEof
    \/ CodexReadRaises
    \/ CodexWait
    \/ CodexExcept
    \/ CodexFinally
    \/ CodexReturn
    \/ CodexAbandon
    \/ \E chunk \in ChunkKinds : ProcWrite(chunk)
    \/ ProcCloseStdout
    \/ \E rc \in ExitStatuses : ProcExit(rc)

SpecCodex == InitCodex /\ [][NextCodex]_vars

\* the event loop runs a ready generator step; the subprocess owes nothing
SpecCodexFair == SpecCodex /\ WF_vars(CodexScheduled)

\* C2: on every exit path of the CLI backend that runs to completion (spawn
\* failure, output stream unavailable, exit status zero or non-zero, an
\* exception after 0, 1 or many content frames), the frames yielded hold
\* exactly one done frame, and it is the last frame.
C2_CodexEndsWithOneDone ==
    c_pc = "closed" => EndsWithOneDone(c_frames)

\* C10: a subprocess that was started never keeps the generator waiting for
\* ever: the stream is brought to its end (the claim: by a forced termination
\* after a bounded time, a timeout error frame and done), unless the consumer
\* abandons it first.
C10_BoundedLifetime ==
    (process = "running") ~> (c_pc \in {"closed", "aborted"})

\* C11: when the consumer abandons the CLI stream at a suspension point
\* after the subprocess was spawned (awaiting a chunk, at a yielded frame,
\* awaiting the exit), once the generator is closed the subprocess is not
\* running any more and the prompt file is removed.
C11_AbandonCleansUp ==
    c_pc = "aborted" => (process # "running" /\ ~prompt_file)

\* the stream was abandoned while the subprocess ran, and the generator is
\* closed: the subprocess was killed
C11_Witness ==
    c_pc = "aborted" /\ process = "killed" /\ ~prompt_file

\* the content of the frames, in order: the sanitized output streamed so far
\* (a chunk of control sequences only is streamed as an empty content)
RECURSIVE StreamedText(_)
StreamedText(frames) ==
    IF frames = <<>> THEN <<>>
    ELSE LET rest == StreamedText(Tail(frames))
         IN  IF Head(frames).kind = "data" /\ Head(frames).info # "ansi"
               THEN <<Head(frames).info>> \o rest
               ELSE rest

\* one of the two phrases occurs in the text, whole in one chunk or cut in two
HasSignature(text) ==
    \E i \in 1..Len(text) :
        \/ text[i] = "auth"
        \/ i < Len(text) /\ text[i] = "auth_head" /\ text[i + 1] = "auth_tail"

ExitErrors == {ErrorFrame("not authenticated"), ErrorFrame("execution failed")}

\* C18: when the subprocess exits with a non-zero status, the error frame of
\* the exit comes after all content frames and is the only error frame, and
\* it says "not authenticated" exactly when one of the two phrases occurred
\* in the sanitized output streamed before it, however the output was cut
\* into chunks.
C18_AuthDetail ==
    \A i \in 1..Len(c_frames) :
        c_frames[i] \in ExitErrors =>
            /\ \A j \in 1..(i - 1) : c_frames[j].kind = "data"
            /\ \A j \in (i + 1)..Len(c_frames) : c_frames[j].kind = "done"
            /\ (c_frames[i] = ErrorFrame("not authenticated"))
                   <=> HasSignature(StreamedText(SubSeq(c_frames, 1, i - 1)))

\* C20: no done frame is yielded while the prompt file exists or the
\* subprocess is alive: on every exit path the removal of the file and the
\* kill of a running subprocess come before the done frame.
C20_CleanupBeforeDone ==
    (\E i \in 1..Len(c_frames) : c_frames[i] = DoneFrame)
        => (~prompt_file /\ process # "running")

(***************************************************************************)
(* Device auth: codex_device_auth_start, codex_status, codex_disconnect    *)
(* (lines 425-523).  time.time() is a float: the clock of SpecAuth counts  *)
(* ticks of 1/TicksPerSecond seconds, so that a remaining cooldown can be  *)
(* a fraction of a second.  A /start request is two steps, the guard and   *)
(* launch (up to the await of line 483) and the rest; /status and          *)
(* /disconnect read and write no shared state and are one step each.       *)
(***************************************************************************)
\* the resolution of the clock
TicksPerSecond == 2
\* the default of line 41 (the environment may override it)
CODEX_DEVICE_AUTH_COOLDOWN_SECONDS == 60
\* how long after one full cooldown the clock of SpecAuth runs on
ExtraTicks == 2

AuthHorizon == CODEX_DEVICE_AUTH_COOLDOWN_SECONDS * TicksPerSecond + ExtraTicks

Max(a, b) == IF a >= b THEN a ELSE b

\* line 473: max(1, int(CODEX_DEVICE_AUTH_COOLDOWN_UNTIL - now)), for until > now
RetryAfterNoFloor(until, now) == (until - now) \div TicksPerSecond

RetryAfterSeconds(until, now) == Max(1, (until - now) \div TicksPerSecond)

\* What "codex login --device-auth" under script(1) ends as:
\*   kind "exited": it printed output, with or without a pairing code
\*        (XXXX-XXXXX) and with or without a rate-limit signal ("429",
\*        "too many", "rate limit");
\*   kind "not_installed": status 127 or "not found" in the output;
\*   kind "timeout": wait_for gave up and the process was killed; has_code
\*        and rate_signal say what it had printed until then.
LoginOutcomes ==
    { [kind |-> k, has_code |-> c, rate_signal |-> s] :
          k \in {"exited", "timeout"}, c, s \in BOOLEAN }
    \cup { [kind |-> "not_installed", has_code |-> FALSE, rate_signal |-> FALSE] }

\* run_tty_command + run_codex_command: the CodexCommandResult of an outcome.
\* On a timeout the output is the fixed message of line 437 (what the
\* subprocess had printed is dropped), on a missing CLI the fixed message of
\* line 450: neither holds a code or a signal.
run_codex_command(outcome) ==
    IF outcome.kind = "exited"
      THEN [code |-> outcome.has_code, rate_signal |-> outcome.rate_signal]
      ELSE [code |-> FALSE, rate_signal |-> FALSE]

InitAuth ==
    /\ RouteIdle
    /\ HttpIdle
    /\ CodexIdle
    /\ AuthIdle
    /\ CacheIdle
    /\ PureIdle
    /\ clock = 0

\* lines 469-483: the cooldown guard, then the launch of the login subprocess
codex_device_auth_start(r) ==
    /\ start_pc[r] = "idle"
    /\ IF clock < CODEX_DEVICE_AUTH_COOLDOWN_UNTIL
         THEN /\ response' =
                   [op |-> "start", status |-> 429,
                    retry_after_seconds |->
                        <<RetryAfterSeconds(CODEX_DEVICE_AUTH_COOLDOWN_UNTIL, clock)>>,
                    launched |-> FALSE]
              /\ UNCHANGED start_pc
         ELSE /\ start_pc' = [start_pc EXCEPT ![r] = "running"]
              /\ response' = NoResponse
    /\ UNCHANGED <<CODEX_DEVICE_AUTH_COOLDOWN_UNTIL, clock, authRest>>

\* lines 483-494: the login subprocess is over, the request answers
codex_device_auth_finish(r, outcome) ==
    LET result == run_codex_command(outcome)
    IN  /\ start_pc[r] = "running"
        /\ start_pc' = [start_pc EXCEPT ![r] = "idle"]
        /\ IF ~result.code
             THEN IF result.rate_signal
                    THEN /\ CODEX_DEVICE_AUTH_COOLDOWN_UNTIL' =
                              clock + CODEX_DEVICE_AUTH_COOLDOWN_SECONDS * TicksPerSecond
                         /\ response' =
                              [op |-> "start", status |-> 429,
                               retry_after_seconds |-> <<CODEX_DEVICE_AUTH_COOLDOWN_SECONDS>>,
                               launched |-> TRUE]
                    ELSE /\ UNCHANGED CODEX_DEVICE_AUTH_COOLDOWN_UNTIL
                         /\ response' =
                              [op |-> "start", status |-> 500,
                               retry_after_seconds |-> <<>>, launched |-> TRUE]
             ELSE /\ CODEX_DEVICE_AUTH_COOLDOWN_UNTIL' = 0
                  /\ response' =
                       [op |-> "start", status |-> 200,
                        retry_after_seconds |-> <<>>, launched |-> TRUE]
        /\ UNCHANGED <<clock, authRest>>

\* What "codex logout" under script(1) ends as: status 0; a non-zero status
\* with "not logged" in the output; another non-zero status; status 127 or
\* "not found" in the output.
TtyOutcomes == {"logged_out", "was_not_logged_in", "logout_failed", "cli_missing"}

\* lines 497-512: always status 200; the body depends on the subprocess alone
codex_status ==
    /\ response' = [op |-> "status", status |-> 200,
                    retry_after_seconds |-> <<>>, launched |-> FALSE]
    /\ UNCHANGED <<CODEX_DEVICE_AUTH_COOLDOWN_UNTIL, start_pc, clock, authRest>>

\* lines 515-523: logout; no global is written
codex_disconnect(outcome) ==
    /\ response' = [op |-> "disconnect", status |-> CASE outcome = "cli_missing" -> 404
                                 [] outcome = "logout_failed" -> 500
                                 [] OTHER -> 200,
                    retry_after_seconds |-> <<>>, launched |-> FALSE]
    /\ UNCHANGED <<CODEX_DEVICE_AUTH_COOLDOWN_UNTIL, start_pc, clock, authRest>>

\* time passes
TickAuth ==
    /\ clock < AuthHorizon
    /\ clock' = clock + 1
    /\ response' = NoResponse
    /\ UNCHANGED <<CODEX_DEVICE_AUTH_COOLDOWN_UNTIL, start_pc, authRest>>

NextAuth ==
    \/ \E r \in Requests : codex_device_auth_start(r) /\ UNCHANGED limited_until
    \/ \E r \in Requests, outcome \in LoginOutcomes :
           codex_device_auth_finish(r, outcome) /\ UNCHANGED limited_until
    \/ codex_status /\ UNCHANGED limited_until
    \/ \E outcome \in TtyOutcomes : codex_disconnect(outcome) /\ UNCHANGED limited_until
    \/ TickAuth /\ UNCHANGED limited_until

SpecAuth == InitAuth /\ [][NextAuth]_vars

\* a /start request has just been turned away by the cooldown guard
RejectedByGuard == response.op = "start" /\ response.status = 429 /\ ~response.launched

\* the login subprocesses alive
LoginsAlive == Cardinality({ r \in DOMAIN start_pc : start_pc[r] = "running" })

\* C3 as claimed: a /start called while now < CODEX_DEVICE_AUTH_COOLDOWN_UNTIL
\* launches no subprocess, leaves the cooldown timestamp unchanged and
\* answers 429 with retry_after_seconds equal to the exact remaining time,
\* cooldown-until minus now.
C3_ExactRemaining ==
    [][\A r \in Requests :
          (codex_device_auth_start(r) /\ clock < CODEX_DEVICE_AUTH_COOLDOWN_UNTIL)
            => /\ LoginsAlive' = LoginsAlive
               /\ CODEX_DEVICE_AUTH_COOLDOWN_UNTIL' = CODEX_DEVICE_AUTH_COOLDOWN_UNTIL
               /\ response'.status = 429
               /\ response'.retry_after_seconds # <<>>
               /\ response'.retry_after_seconds[1] * TicksPerSecond
                    = CODEX_DEVICE_AUTH_COOLDOWN_UNTIL - clock]_vars

\* C3 as amended: a /start called while now < CODEX_DEVICE_AUTH_COOLDOWN_UNTIL
\* launches no subprocess, leaves the cooldown timestamp unchanged and
\* answers 429 with retry_after_seconds equal to the remaining time cut to
\* whole seconds, and 1 when less than a second remains.
C3_GuardRejects ==
    [][\A r \in Requests :
          (codex_device_auth_start(r) /\ clock < CODEX_DEVICE_AUTH_COOLDOWN_UNTIL)
            => /\ LoginsAlive' = LoginsAlive
               /\ CODEX_DEVICE_AUTH_COOLDOWN_UNTIL' = CODEX_DEVICE_AUTH_COOLDOWN_UNTIL
               /\ response'.status = 429
               /\ response'.retry_after_seconds # <<>>
               /\ LET remaining == CODEX_DEVICE_AUTH_COOLDOWN_UNTIL - clock
                      after == response'.retry_after_seconds[1]
                  IN  IF remaining < TicksPerSecond
                        THEN after = 1
                        ELSE /\ after * TicksPerSecond <= remaining
                             /\ remaining < (after + 1) * TicksPerSecond]_vars

\* the guard has turned a /start away with less than a second of cooldown left
C3_Witness ==
    /\ RejectedByGuard
    /\ CODEX_DEVICE_AUTH_COOLDOWN_UNTIL - clock < TicksPerSecond
    /\ response.retry_after_seconds = <<1>>

\* C4: after every /start that launched the login subprocess, whatever its
\* outcome, the cooldown timestamp is in the future, so that a /start issued
\* immediately afterwards launches no subprocess.
C4_CooldownAfterEveryStart ==
    (response.op = "start" /\ response.launched)
        => clock < CODEX_DEVICE_AUTH_COOLDOWN_UNTIL

\* C5: when /disconnect has answered, whatever the logout's exit status, the
\* cooldown is cleared: a /start that follows immediately is not turned away
\* by the guard.
C5_DisconnectClearsCooldown ==
    response.op = "disconnect" => ~(clock < CODEX_DEVICE_AUTH_COOLDOWN_UNTIL)

\* C21: when the login subprocess runs into its timeout after it has printed
\* a pairing code, /start still returns that code (status 200); a timeout
\* failure is reported only when what was captured holds no code.
C21_TimeoutSalvage ==
    [][\A r \in DOMAIN start_pc, outcome \in LoginOutcomes :
          (codex_device_auth_finish(r, outcome) /\ outcome.kind = "timeout")
            => (response'.status = 200 <=> outcome.has_code)]_vars

(***************************************************************************)
(* Device auth under a burst of /start requests: SpecAuthRace runs the     *)
(* same handlers for MaxRacers concurrent requests over a few ticks, and   *)
(* records in limited_until the cooldown end that the latest upstream rate *)
(* limit set.                                                              *)
(***************************************************************************)
\* the concurrent /start requests of SpecAuthRace
MaxRacers == 3
Racers == 1..MaxRacers
\* how many ticks the clock of SpecAuthRace makes
MaxRaceTicks == 2

InitAuthRace ==
    /\ RouteIdle
    /\ HttpIdle
    /\ CodexIdle
    /\ CacheIdle
    /\ PureIdle
    /\ CODEX_DEVICE_AUTH_COOLDOWN_UNTIL = 0
    /\ start_pc = [r \in Racers |-> "idle"]
    /\ response = NoResponse
    /\ limited_until = 0
    /\ clock = 0

\* lines 484-486: no pairing code, and the output signals a rate limit
RateLimited(outcome) ==
    ~run_codex_command(outcome).code /\ run_codex_command(outcome).rate_signal

\* time passes
TickAuthRace ==
    /\ clock < MaxRaceTicks
    /\ clock' = clock + 1
    /\ response' = NoResponse
    /\ UNCHANGED <<CODEX_DEVICE_AUTH_COOLDOWN_UNTIL, start_pc, authRest>>

NextAuthRace ==
    \/ \E r \in Racers : codex_device_auth_start(r) /\ UNCHANGED limited_until
    \/ \E r \in Racers, outcome \in LoginOutcomes :
           /\ codex_device_auth_finish(r, outcome)
           /\ limited_until' = IF RateLimited(outcome)
                                 THEN CODEX_DEVICE_AUTH_COOLDOWN_UNTIL'
                                 ELSE limited_until
    \/ codex_status /\ UNCHANGED limited_until
    \/ \E outcome \in TtyOutcomes : codex_disconnect(outcome) /\ UNCHANGED limited_until
    \/ TickAuthRace /\ UNCHANGED limited_until

SpecAuthRace == InitAuthRace /\ [][NextAuthRace]_vars

\* C12: however many /start requests are interleaved, the cooldown guard
\* lets at most one redundant login subprocess be launched, so at most two
\* login subprocesses are alive at the same time; and the shared cooldown
\* timestamp is never corrupted: it is 0 or the end of the cooldown that the
\* latest rate limit set.
C12_AtMostOneRedundantLaunch ==
    /\ LoginsAlive <= 2
    /\ CODEX_DEVICE_AUTH_COOLDOWN_UNTIL \in {0, limited_until}

\* C19: when a /start launched the login subprocess, no pairing code was
\* found and the output signals a rate limit, the cooldown timestamp is set
\* to now + CODEX_DEVICE_AUTH_COOLDOWN_SECONDS and the answer is 429 with
\* retry_after_seconds equal to the configured duration; and every /start
\* called before that time is turned away by the guard.
C19_RateLimitSetsCooldown ==
    [][/\ \A r \in DOMAIN start_pc, outcome \in LoginOutcomes :
             (codex_device_auth_finish(r, outcome) /\ RateLimited(outcome))
               => /\ CODEX_DEVICE_AUTH_COOLDOWN_UNTIL' =
                       clock + CODEX_DEVICE_AUTH_COOLDOWN_SECONDS * TicksPerSecond
                  /\ response'.status = 429
                  /\ response'.retry_after_seconds =
                       <<CODEX_DEVICE_AUTH_COOLDOWN_SECONDS>>
       /\ \A r \in DOMAIN start_pc :
             (codex_device_auth_start(r) /\ clock < limited_until)
               => (RejectedByGuard' /\ LoginsAlive' = LoginsAlive)]_vars

\* C22: once a /start has seen an upstream rate limit and set the cooldown,
\* until that cooldown has elapsed no login subprocess is spawned and the
\* cooldown timestamp is not lowered, under every interleaving of concurrent
\* /start, /status and /disconnect requests, a /start that was already in
\* flight and ends with a pairing code included.
C22_CooldownHolds ==
    [][clock < limited_until
         => /\ \A r \in DOMAIN start_pc :
                  ~(start_pc[r] = "idle" /\ start_pc'[r] = "running")
            /\ CODEX_DEVICE_AUTH_COOLDOWN_UNTIL' >= CODEX_DEVICE_AUTH_COOLDOWN_UNTIL
            /\ CODEX_DEVICE_AUTH_COOLDOWN_UNTIL' >= limited_until]_vars

(***************************************************************************)
(* The remote catalog cache: get_openrouter_models (lines 104-127).        *)
(* A call is two steps: lines 105-118 (the cache check and, on a miss, the *)
(* request, up to the await of line 118) and lines 119-127 (the response). *)
(* The clock of SpecCache counts seconds and moves in steps of             *)
(* CacheTickSeconds, so that calls are made inside the TTL window, at its  *)
(* end and after it.  A model list is a sequence of model ids.             *)
(***************************************************************************)
MODEL_CACHE_TTL_SECONDS == 300
\* how far the clock of SpecCache moves in one step
CacheTickSeconds == 150
\* how many steps the clock of SpecCache makes
MaxCacheTicks == 4

\* What the remote answers with status 200: a JSON object whose "data" is a
\* list (possibly empty), an object without a list under "data", or a JSON
\* value that is not an object.
RemotePayloads ==
    { [kind |-> "data_list", data |-> l] :
          l \in { <<>>, <<"m1">>, <<"m2", "m3">> } }
    \cup { [kind |-> "data_not_list", data |-> <<>>],
           [kind |-> "not_dict", data |-> <<>>] }

\* lines 121-124
ModelsOf(payload) == IF payload.kind = "data_list" THEN payload.data ELSE <<>>

\* line 108: cached_models and (now - fetched_at) < MODEL_CACHE_TTL_SECONDS;
\* an empty list is falsy
CacheHit(cache, now) ==
    cache.models # <<>> /\ (now - cache.fetched_at) < MODEL_CACHE_TTL_SECONDS

\* a response handler that stores what it got before it looks at the status
CacheAfterResponse_StoreFirst(cache, now, status, payload) ==
    [fetched_at |-> now,
     models |-> IF status # 200 THEN <<>> ELSE ModelsOf(payload)]

\* lines 119-126: the cache after a response with this status and payload
CacheAfterResponse(cache, now, status, payload) ==
    IF status # 200 THEN cache
    ELSE [fetched_at |-> now, models |-> ModelsOf(payload)]

InitCache ==
    /\ RouteIdle
    /\ HttpIdle
    /\ CodexIdle
    /\ AuthIdle
    /\ CacheIdle
    /\ PureIdle
    /\ clock = 0

\* the credentials of the callers: two keys the remote accepts and one it
\* does not (what the remote answers is its own choice)
ApiKeyValues == {"key1", "key2", "bad_key"}

\* lines 105-118: the cache check; on a miss the request is sent with api_key
get_openrouter_models(c, api_key) ==
    /\ call_pc[c] = "idle"
    /\ IF CacheHit(MODEL_CACHE, clock)
         THEN /\ cache_result' = [op |-> "cached", call |-> c,
                                  models |-> MODEL_CACHE.models, key |-> "none"]
              /\ UNCHANGED <<call_pc, call_now>>
         ELSE /\ cache_result' = [op |-> "request_sent", call |-> c, models |-> <<>>,
                                  key |-> api_key]
              /\ call_pc' = [call_pc EXCEPT ![c] = "fetching"]
              /\ call_now' = [call_now EXCEPT ![c] = clock]
    /\ UNCHANGED <<MODEL_CACHE, fetched_ok, clock, cacheRest>>

\* lines 119-127: the response has arrived
get_openrouter_models_response(c, status, payload) ==
    /\ call_pc[c] = "fetching"
    /\ call_pc' = [call_pc EXCEPT ![c] = "idle"]
    /\ call_now' = [call_now EXCEPT ![c] = 0]
    /\ MODEL_CACHE' = CacheAfterResponse(MODEL_CACHE, call_now[c], status, payload)
    /\ fetched_ok' = (fetched_ok \/ status = 200)
    /\ cache_result' =
         IF status # 200
           THEN [op |-> "raised", call |-> c, models |-> <<>>, key |-> "none"]
           ELSE [op |-> "fetched", call |-> c, models |-> ModelsOf(payload),
                 key |-> "none"]
    /\ UNCHANGED <<clock, cacheRest>>

\* line 118: the request raises (no connection, a timeout)
get_openrouter_models_raises(c) ==
    /\ call_pc[c] = "fetching"
    /\ call_pc' = [call_pc EXCEPT ![c] = "idle"]
    /\ call_now' = [call_now EXCEPT ![c] = 0]
    /\ cache_result' = [op |-> "raised", call |-> c, models |-> <<>>, key |-> "none"]
    /\ UNCHANGED <<MODEL_CACHE, fetched_ok, clock, cacheRest>>

\* time passes
TickCache ==
    /\ clock < MaxCacheTicks * CacheTickSeconds
    /\ clock' = clock + CacheTickSeconds
    /\ cache_result' = NoResult
    /\ UNCHANGED <<MODEL_CACHE, call_pc, call_now, fetched_ok, cacheRest>>

NextCache ==
    \/ \E c \in Calls, api_key \in ApiKeyValues : get_openrouter_models(c, api_key)
    \/ \E c \in Calls, status \in Statuses, payload \in RemotePayloads :
          get_openrouter_models_response(c, status, payload)
    \/ \E c \in Calls : get_openrouter_models_raises(c)
    \/ TickCache

SpecCache == InitCache /\ [][NextCache]_vars

\* C8: once a fetch has succeeded, whatever list the remote returned, a call
\* made less than 300 seconds after it sends no request: it returns the
\* cached list.
C8_NoFetchWithinTtl ==
    (fetched_ok /\ clock - MODEL_CACHE.fetched_at < MODEL_CACHE_TTL_SECONDS)
        => cache_result.op # "request_sent"

\* C9: when the remote answers with a status other than 200, the call raises
\* and MODEL_CACHE, the model list and fetched_at, is left as it was.
C9_FailureKeepsCache ==
    [][\A c \in Calls, status \in Statuses \ {200}, payload \in RemotePayloads :
          get_openrouter_models_response(c, status, payload)
            => /\ MODEL_CACHE' = MODEL_CACHE
               /\ cache_result'.op = "raised"]_vars

\* a call has raised while the cache held the list of an earlier fetch
C9_Witness ==
    /\ cache_result.op = "raised"
    /\ fetched_ok
    /\ MODEL_CACHE.models # <<>>
    /\ clock - MODEL_CACHE.fetched_at >= MODEL_CACHE_TTL_SECONDS

\* C23: the cache is shared across credentials: within the TTL window after
\* a successful fetch, a call of get_openrouter_models with any api_key, valid
\* or not, returns the cached list, sends nothing upstream and does not
\* fail, so what it returns does not depend on the credential.
C23_CacheSharedAcrossKeys ==
    [][\A c \in Calls, api_key \in ApiKeyValues :
          (/\ get_openrouter_models(c, api_key)
           /\ fetched_ok
           /\ clock - MODEL_CACHE.fetched_at < MODEL_CACHE_TTL_SECONDS)
            => cache_result' = [op |-> "cached", call |-> c,
                                models |-> MODEL_CACHE.models, key |-> "none"]]_vars

(***************************************************************************)
(* The CLI catalog: merge_codex_models (lines 147-185).  Identifiers and   *)
(* labels are sequences of characters.  A Python dict is the sequence of   *)
(* its items in insertion order.  SpecMerge draws dynamic_models, calls    *)
(* the function twice on it and then once on its own result.               *)
(***************************************************************************)
\* the most entries of dynamic_models
MaxDynamic == 3

\* lines 147-156
codex_curated_models ==
    << [id |-> <<"g", "p", "t", "-", "5", ".", "3">>,
        label |-> <<"G", "P", "T", "-", "5", ".", "3", " ", "C", "o", "d", "e", "x">>],
       [id |-> <<"g", "p", "t", "-", "5", ".", "2">>,
        label |-> <<"G", "P", "T", "-", "5", ".", "2", " ", "C", "o", "d", "e", "x">>],
       [id |-> <<"o", "p", "e", "n", "a", "i", "/", "g", "p", "t", "-", "5", ".", "2", "-", "c", "h", "a", "t">>,
        label |-> <<"G", "P", "T", "-", "5", ".", "2">>],
       [id |-> <<"d", "e", "e", "p", "s", "e", "e", "k", "/", "d", "e", "e", "p", "s", "e", "e", "k", "-", "r", "1">>,
        label |-> <<"D", "e", "e", "p", "S", "e", "e", "k">>],
       [id |-> <<"g", "o", "o", "g", "l", "e", "/", "g", "e", "m", "i", "n", "i", "-", "3", "-", "f", "l", "a", "s", "h">>,
        label |-> <<"G", "e", "m", "i", "n", "i", " ", "3", " ", "F", "l", "a", "s", "h">>],
       [id |-> <<"m", "e", "t", "a", "-", "l", "l", "a", "m", "a", "/", "l", "l", "a", "m", "a", "-", "4">>,
        label |-> <<"L", "l", "a", "m", "a", " ", "4">>],
       [id |-> <<"o", "p", "e", "n", "a", "i", "/", "g", "p", "t", "-", "4", "o", "-", "m", "i", "n", "i">>,
        label |-> <<"G", "P", "T", "-", "4", "o", " ", "M", "i", "n", "i">>] >>

\* lines 159-167
codex_model_keywords ==
    { <<"g", "p", "t", "-", "5", ".", "3">>,
      <<"g", "p", "t", "-", "5", ".", "2">>,
      <<"g", "p", "t", "-", "4", "o", "-", "m", "i", "n", "i">>,
      <<"d", "e", "e", "p", "s", "e", "e", "k", "-", "r", "1">>,
      <<"g", "e", "m", "i", "n", "i", "-", "3", "-", "f", "l", "a", "s", "h">>,
      <<"l", "l", "a", "m", "a", "-", "4">> }

\* line 171: model_id.split("/", 1)[-1].replace("-", " ").replace(":", " ").title()
codex_label(model_id) ==
    LET last == IF HasSlash(model_id) THEN AfterFirstSlash(model_id) ELSE model_id
    IN  title(ReplaceBySpace(ReplaceBySpace(last, "-"), ":"))

setdefault_Overwrite(merged, model_id, label) ==
    IF \E i \in 1..Len(merged) : merged[i].id = model_id
      THEN [i \in 1..Len(merged) |->
               IF merged[i].id = model_id THEN [id |-> model_id, label |-> label]
               ELSE merged[i]]
      ELSE Append(merged, [id |-> model_id, label |-> label])

\* line 184: merged.setdefault(model_id, label): a key that is present keeps
\* its value and its place, a new key goes to the end
setdefault(merged, model_id, label) ==
    IF \E i \in 1..Len(merged) : merged[i].id = model_id
      THEN merged
      ELSE Append(merged, [id |-> model_id, label |-> label])

\* lines 178-180: model.get("id") if isinstance(model, dict) else None, and
\* whether it is a non-empty str
UsableId(entry) == entry.kind = "dict" /\ entry.id # <<>>

\* lines 181-183
HasKeyword(model_id) ==
    \E keyword \in codex_model_keywords : Contains(lower(model_id), keyword)

\* lines 177-184: the loop, from the dict merged on
RECURSIVE MergeLoop(_, _)
MergeLoop(merged, dynamic_models) ==
    IF dynamic_models = <<>> THEN merged
    ELSE LET entry == Head(dynamic_models)
         IN  MergeLoop(IF UsableId(entry) /\ HasKeyword(entry.id)
                         THEN setdefault(merged, entry.id, codex_label(entry.id))
                         ELSE merged,
                       Tail(dynamic_models))

\* lines 174-185; dynamic_models is [some |-> FALSE] for None
merge_codex_models(dynamic_models) ==
    IF dynamic_models.some /\ dynamic_models.val # <<>>
      THEN MergeLoop(codex_curated_models, dynamic_models.val)
      ELSE codex_curated_models

\* What a dynamic list holds: dicts with an id that is a curated id, an id
\* that holds a keyword only after lower-casing, an id with a namespace and
\* a ":" suffix, an id without a keyword, the empty id; a dict without "id";
\* a dict whose id is not a str; a value that is not a dict.
DynamicEntries ==
    { [kind |-> "dict", id |-> i] :
          i \in { <<"g", "p", "t", "-", "5", ".", "3">>,
                  <<"G", "P", "T", "-", "5", ".", "2">>,
                  <<"x", "/", "l", "l", "a", "m", "a", "-", "4", ":", "f", "r", "e", "e">>,
                  <<"o", "p", "e", "n", "a", "i", "/", "g", "p", "t", "-", "4", "o", "-", "m", "i", "n", "i">>,
                  <<"x">>, <<>> } }
    \cup { [kind |-> "dict_without_id", id |-> <<>>],
           [kind |-> "dict_id_not_str", id |-> <<>>],
           [kind |-> "not_dict", id |-> <<>>] }

RECURSIVE ListsOf(_, _)
ListsOf(entries, n) ==
    IF n = 0 THEN { <<>> }
    ELSE LET shorter == ListsOf(entries, n - 1)
         IN  shorter \cup { Append(l, e) : l \in shorter, e \in entries }

DynamicModels ==
    { [some |-> FALSE] }
    \cup { [some |-> TRUE, val |-> l] : l \in ListsOf(DynamicEntries, MaxDynamic) }

\* the list a call returned, given to the next call as dynamic_models
AsDynamic(catalog) ==
    [some |-> TRUE,
     val |-> [i \in 1..Len(catalog) |-> [kind |-> "dict", id |-> catalog[i].id]]]

InitMerge ==
    /\ RouteIdle
    /\ HttpIdle
    /\ CodexIdle
    /\ AuthIdle
    /\ CacheIdle
    /\ m_pc = "input"
    /\ m_dynamic \in DynamicModels
    /\ m_first = <<>>
    /\ m_catalog = <<>>
    /\ RecIdle
    /\ SanIdle
    /\ clock = 0

\* merge_codex_models(dynamic_models)
MergeFirst ==
    /\ m_pc = "input"
    /\ m_pc' = "once"
    /\ m_catalog' = merge_codex_models(m_dynamic)
    /\ m_first' = merge_codex_models(m_dynamic)
    /\ UNCHANGED <<m_dynamic, mergeRest>>

\* the same call once more
MergeSecond ==
    /\ m_pc = "once"
    /\ m_pc' = "twice"
    /\ m_catalog' = merge_codex_models(m_dynamic)
    /\ UNCHANGED <<m_dynamic, m_first, mergeRest>>

\* merge_codex_models applied to the list it returned
MergeOwnResult ==
    /\ m_pc = "twice"
    /\ m_pc' = "fed"
    /\ m_catalog' = merge_codex_models(AsDynamic(m_catalog))
    /\ UNCHANGED <<m_dynamic, m_first, mergeRest>>

NextMerge ==
    \/ MergeFirst
    \/ MergeSecond
    \/ MergeOwnResult

SpecMerge == InitMerge /\ [][NextMerge]_vars

CuratedIds == { codex_curated_models[i].id : i \in 1..Len(codex_curated_models) }

\* the ids of a dynamic list that are accepted and not curated, each at the
\* place of its first occurrence
RECURSIVE NewIds(_, _)
NewIds(entries, seen) ==
    IF entries = <<>> THEN <<>>
    ELSE LET e == Head(entries)
             take == /\ e.kind = "dict"
                     /\ e.id # <<>>
                     /\ \E k \in codex_model_keywords : Contains(lower(e.id), k)
                     /\ e.id \notin seen
         IN  IF take THEN <<e.id>> \o NewIds(Tail(entries), seen \cup {e.id})
             ELSE NewIds(Tail(entries), seen)

\* C13: merge_codex_models is idempotent and order-stable: for every dynamic
\* list the catalog is the curated entries, in curated order and with their
\* curated labels whatever the dynamic list holds, followed by the accepted
\* dynamic ids in the order of their first occurrence; a second merge of the
\* same list, and a merge of the catalog itself, give the same catalog in
\* the same order.
C13_MergeIdempotent ==
    m_pc # "input" =>
        LET new == NewIds(IF m_dynamic.some THEN m_dynamic.val ELSE <<>>, CuratedIds)
        IN  /\ Len(m_catalog) = Len(codex_curated_models) + Len(new)
            /\ SubSeq(m_catalog, 1, Len(codex_curated_models)) = codex_curated_models
            /\ \A i \in 1..Len(new) :
                   m_catalog[Len(codex_curated_models) + i].id = new[i]
            /\ m_catalog = m_first

\* the list held a curated id and the same new id twice, and the catalog
\* was merged again from itself: one new entry, after the curated ones
C13_Witness ==
    /\ m_pc = "fed"
    /\ m_dynamic.some
    /\ \E i, j, k \in 1..Len(m_dynamic.val) :
          /\ i < j
          /\ m_dynamic.val[i] = m_dynamic.val[j]
          /\ m_dynamic.val[i].id = <<"G", "P", "T", "-", "5", ".", "2">>
          /\ m_dynamic.val[k].id \in CuratedIds
    /\ Len(m_catalog) = Len(codex_curated_models) + 1
    /\ m_catalog[Len(m_catalog)] = [id |-> <<"G", "P", "T", "-", "5", ".", "2">>, label |-> <<"G", "p", "t", " ", "5", ".", "2">>]

(***************************************************************************)
(* The recommendation: rank_model_for_prompt (lines 130-144) and           *)
(* recommend_model (lines 395-422).  SpecRecommend draws the message and   *)
(* the candidate list, a concatenation of at most MaxBlocks blocks, and    *)
(* answers the request.  The request carries no api_key, so dynamic_models *)
(* is the empty list.                                                      *)
(***************************************************************************)
\* the most blocks a candidate list is made of
MaxBlocks == 3
\* line 422: scored[:8]
RankedLimit == 8

CodePromptWords ==
    { <<"c", "o", "d", "e">>,
      <<"f", "i", "x">>,
      <<"b", "u", "g">>,
      <<"t", "y", "p", "e", "s", "c", "r", "i", "p", "t">>,
      <<"p", "y", "t", "h", "o", "n">>,
      <<"r", "e", "a", "c", "t">>,
      <<"r", "e", "f", "a", "c", "t", "o", "r">>,
      <<"d", "e", "p", "l", "o", "y">> }
CodeModelWords == { <<"g", "p", "t", "-", "5">>,
                    <<"g", "p", "t", "-", "4">>,
                    <<"c", "o", "d", "e", "r">>,
                    <<"q", "w", "e", "n">> }
ReasonPromptWords == { <<"r", "e", "a", "s", "o", "n">>,
                       <<"m", "a", "t", "h">>,
                       <<"a", "n", "a", "l", "y", "s", "i", "s">>,
                       <<"p", "l", "a", "n">>,
                       <<"l", "o", "g", "i", "c">> }
ReasonModelWords == { <<"r", "1">>,
                      <<"o", "1">>,
                      <<"o", "3">>,
                      <<"g", "p", "t", "-", "5">>,
                      <<"t", "h", "i", "n", "k">>,
                      <<"r", "e", "a", "s", "o", "n">> }
FlagshipWords == { <<"g", "p", "t", "-", "5">>,
                   <<"g", "p", "t", "-", "4", ".", "1">>,
                   <<"g", "p", "t", "-", "4", "o">> }
CheapWords == { <<":", "f", "r", "e", "e">>,
                <<"m", "i", "n", "i">>,
                <<"n", "a", "n", "o">> }

\* any(k in text for k in words)
AnyIn(words, text) == \E k \in words : Contains(text, k)

\* lines 130-144
rank_model_for_prompt(prompt, model_id) ==
    LET text == lower(prompt)
        mdl == lower(model_id)
    IN  (IF AnyIn(CodePromptWords, text) /\ AnyIn(CodeModelWords, mdl) THEN 4 ELSE 0)
        + (IF AnyIn(ReasonPromptWords, text) /\ AnyIn(ReasonModelWords, mdl) THEN 4 ELSE 0)
        + (IF AnyIn(FlagshipWords, mdl) THEN 2 ELSE 0)
        - (IF AnyIn(CheapWords, mdl) THEN 1 ELSE 0)

InsertDesc_BeforeEqual(sorted, item) ==
    LET n == Cardinality({ i \in 1..Len(sorted) : sorted[i].score > item.score })
    IN  SubSeq(sorted, 1, n) \o <<item>> \o SubSeq(sorted, n + 1, Len(sorted))

\* line 410: where sort(key=score, reverse=True) puts one more item: after
\* the items whose score is greater or equal (the sort is stable, and with
\* reverse=True equal items keep their order)
InsertDesc(sorted, item) ==
    LET n == Cardinality({ i \in 1..Len(sorted) : sorted[i].score >= item.score })
    IN  SubSeq(sorted, 1, n) \o <<item>> \o SubSeq(sorted, n + 1, Len(sorted))

\* line 410: scored.sort(key=lambda item: item[1], reverse=True)
RECURSIVE SortDesc(_)
SortDesc(scored) ==
    IF scored = <<>> THEN <<>>
    ELSE InsertDesc(SortDesc(SubSeq(scored, 1, Len(scored) - 1)), scored[Len(scored)])

\* line 409: [(model_id, rank_model_for_prompt(message, model_id)) for ...]
RECURSIVE ScoreAll(_, _)
ScoreAll(message, candidates) ==
    IF candidates = <<>> THEN <<>>
    ELSE <<[id |-> Head(candidates),
            score |-> rank_model_for_prompt(message, Head(candidates))]>>
         \o ScoreAll(message, Tail(candidates))

\* the first n items, seq[:n]
Take(seq, n) == SubSeq(seq, 1, IF Len(seq) < n THEN Len(seq) ELSE n)

\* lines 413-420
ReasonFor(message, best_score) ==
    IF AnyIn(CodePromptWords, lower(message)) THEN "code"
    ELSE IF AnyIn(ReasonPromptWords, lower(message)) THEN "reasoning"
    ELSE IF best_score <= 0 THEN "default"
    ELSE "overall"

\* the model ids the candidate lists are made of: a flagship "mini" model in
\* upper case, a coding model and a reasoning model
GptMini == <<"G", "P", "T", "-", "5", "-", "m", "i", "n", "i">>
Qwen == <<"q", "w", "e", "n">>
O1 == <<"o", "1">>

CandidateBlocks == { <<GptMini>>, <<Qwen>>, <<O1>>, <<O1, Qwen, GptMini, Qwen>> }

CandidateLists == Concats(CandidateBlocks, MaxBlocks)

\* messages: coding and reasoning words, a coding word in upper case, neither
Messages == { <<"f", "i", "x", " ", "p", "l", "a", "n">>, <<"F", "i", "x">>, <<"h", "i">> }

InitRecommend ==
    /\ RouteIdle
    /\ HttpIdle
    /\ CodexIdle
    /\ AuthIdle
    /\ CacheIdle
    /\ MergeIdle
    /\ SanIdle
    /\ r_pc = "request"
    /\ r_message \in Messages
    /\ r_candidates \in CandidateLists
    /\ r_response = NoAnswer
    /\ clock = 0

\* lines 395-422
recommend_model ==
    LET merged == merge_codex_models([some |-> TRUE, val |-> <<>>])
        codex_model_ids == [i \in 1..Len(merged) |-> merged[i].id]
        candidates == IF r_candidates # <<>> THEN r_candidates ELSE codex_model_ids
        scored == SortDesc(ScoreAll(r_message, candidates))
        ranked == Take(scored, RankedLimit)
    IN  /\ r_pc = "request"
        /\ r_pc' = "answered"
        /\ r_response' =
              IF candidates = <<>>
                THEN [status |-> 400, recommended |-> <<>>, ranked |-> <<>>,
                      reason |-> "none"]
                ELSE [status |-> 200,
                      recommended |-> scored[1].id,
                      ranked |-> [i \in 1..Len(ranked) |-> ranked[i].id],
                      reason |-> ReasonFor(r_message, scored[1].score)]
        /\ UNCHANGED <<r_message, r_candidates, recRest>>

NextRecommend == recommend_model

SpecRecommend == InitRecommend /\ [][NextRecommend]_vars

\* the score of every candidate, in input order
RECURSIVE ScoresOf(_, _)
ScoresOf(message, candidates) ==
    IF candidates = <<>> THEN <<>>
    ELSE <<rank_model_for_prompt(message, Head(candidates))>>
         \o ScoresOf(message, Tail(candidates))

\* the positions of a list of scores, best first: by score descending, and
\* among equal scores by position ascending
RECURSIVE BestFirst(_, _)
BestFirst(scores, left) ==
    IF left = {} THEN <<>>
    ELSE LET i == CHOOSE k \in left :
                     \A j \in left :
                        scores[k] > scores[j] \/ (scores[k] = scores[j] /\ k <= j)
         IN  <<i>> \o BestFirst(scores, left \ {i})

\* C14: for a non-empty candidate list, 'ranked' is the candidates ordered
\* by score descending, with ties kept in input order, cut to the first 8;
\* 'recommended' is the first candidate in input order among those with the
\* maximal score.
C14_RankedStable ==
    (r_pc = "answered" /\ r_candidates # <<>>) =>
        LET scores == ScoresOf(r_message, r_candidates)
            order == BestFirst(scores, 1..Len(r_candidates))
            kept == IF Len(order) < 8 THEN Len(order) ELSE 8
        IN  /\ r_response.status = 200
            /\ r_response.ranked = [i \in 1..kept |-> r_candidates[order[i]]]
            /\ r_response.recommended = r_candidates[order[1]]
            /\ \A j \in 1..Len(r_candidates) : scores[order[1]] >= scores[j]
            /\ \A j \in 1..(order[1] - 1) : scores[j] < scores[order[1]]

\* more than 8 candidates, two different models with the same score and the
\* best one not first: the answer lists 8, the tie in input order
C14_Witness ==
    /\ r_pc = "answered"
    /\ Len(r_candidates) > 8
    /\ r_candidates[1] = O1
    /\ r_candidates[2] = Qwen
    /\ rank_model_for_prompt(r_message, O1) = rank_model_for_prompt(r_message, Qwen)
    /\ Len(r_response.ranked) = 8
    /\ r_response.recommended = GptMini
    /\ \E i \in 1..7 : r_response.ranked[i] = O1 /\ r_response.ranked[i + 1] = Qwen

(***************************************************************************)
(* The output sanitizer: ANSI_ESCAPE_RE and ANSI_ORPHAN_RE (lines 39-40),  *)
(* applied in that order at lines 283-284.  A text is a sequence of        *)
(* characters; "ESC" stands for the character \x1b.  re.sub removes the    *)
(* leftmost matches from left to right, without overlap; [0-9;]* is        *)
(* greedy, and what follows it is never a parameter character, so a match  *)
(* at a position is unique.  SpecSanitize draws a text and sanitizes it    *)
(* twice, or feeds it to the read loop of codex_stream_generator (lines    *)
(* 275-290) in chunks, each sanitized on its own.                          *)
(***************************************************************************)
\* the longest text given to the sanitizer
MaxTextLen == 4

\* [0-9;]
IsParam(c) == c \in {"0", "1", "2", "3", "4", "5", "6", "7", "8", "9", ";"}

\* the first position from i on that holds no parameter character
RECURSIVE ParamsEnd(_, _)
ParamsEnd(s, i) ==
    IF i <= Len(s) /\ IsParam(s[i]) THEN ParamsEnd(s, i + 1) ELSE i

\* line 39, \x1b\[[0-9;]*[A-Za-z]: the length of the match at the start of
\* s, 0 when there is none
EscapeMatch(s) ==
    IF Len(s) >= 3 /\ s[1] = "ESC" /\ s[2] = "["
      THEN LET j == ParamsEnd(s, 3)
           IN  IF j <= Len(s) /\ (IsUpper(s[j]) \/ IsLower(s[j])) THEN j ELSE 0
      ELSE 0

\* line 40, \[[0-9;]*m: the length of the match at the start of s, 0 when
\* there is none
OrphanMatch(s) ==
    IF Len(s) >= 2 /\ s[1] = "["
      THEN LET j == ParamsEnd(s, 2)
           IN  IF j <= Len(s) /\ s[j] = "m" THEN j ELSE 0
      ELSE 0

\* line 283: ANSI_ESCAPE_RE.sub("", s)
RECURSIVE SubEscape(_)
SubEscape(s) ==
    IF s = <<>> THEN <<>>
    ELSE IF EscapeMatch(s) > 0
           THEN SubEscape(SubSeq(s, EscapeMatch(s) + 1, Len(s)))
           ELSE <<Head(s)>> \o SubEscape(Tail(s))

\* line 284: ANSI_ORPHAN_RE.sub("", s)
RECURSIVE SubOrphan(_)
SubOrphan(s) ==
    IF s = <<>> THEN <<>>
    ELSE IF OrphanMatch(s) > 0
           THEN SubOrphan(SubSeq(s, OrphanMatch(s) + 1, Len(s)))
           ELSE <<Head(s)>> \o SubOrphan(Tail(s))

\* lines 283-284
sanitize(text) == SubOrphan(SubEscape(text))

\* the characters of the texts: the escape character, the bracket, a
\* parameter digit, the separator, the letter m and another letter
TextChars == {"ESC", "[", "0", ";", "m", "K"}

RECURSIVE TextsUpTo(_)
TextsUpTo(n) ==
    IF n = 0 THEN { <<>> }
    ELSE LET shorter == TextsUpTo(n - 1)
         IN  shorter \cup { Append(t, c) : t \in shorter, c \in TextChars }

InitSanitize ==
    /\ RouteIdle
    /\ HttpIdle
    /\ CodexIdle
    /\ AuthIdle
    /\ CacheIdle
    /\ MergeIdle
    /\ RecIdle
    /\ s_pc = "raw"
    /\ s_text \in TextsUpTo(MaxTextLen)
    /\ s_clean = <<>>
    /\ s_again = <<>>
    /\ s_unread = s_text
    /\ s_emitted = <<>>
    /\ clock = 0

\* lines 283-284, on the text of a chunk
SanitizeOnce ==
    /\ s_pc = "raw"
    /\ s_pc' = "once"
    /\ s_clean' = sanitize(s_text)
    /\ UNCHANGED <<s_text, s_again, s_unread, s_emitted, sanRest>>

\* lines 283-284, on the text they returned
SanitizeAgain ==
    /\ s_pc = "once"
    /\ s_pc' = "twice"
    /\ s_again' = sanitize(s_clean)
    /\ UNCHANGED <<s_text, s_clean, s_unread, s_emitted, sanRest>>

\* line 276: the most bytes one read returns
ReadLimit == 1024

\* lines 276-290, one turn of the loop: read returns the next n characters
\* of the output (any number from 1 to ReadLimit that the pipe holds), the
\* chunk is sanitized alone and yielded as a content frame
ReadChunk(n) ==
    /\ s_pc \in {"raw", "reading"}
    /\ n \in 1..ReadLimit
    /\ n <= Len(s_unread)
    /\ s_pc' = "reading"
    /\ s_emitted' = s_emitted \o sanitize(SubSeq(s_unread, 1, n))
    /\ s_unread' = SubSeq(s_unread, n + 1, Len(s_unread))
    /\ UNCHANGED <<s_text, s_clean, s_again, sanRest>>

\* lines 276-278: read returns b"" at the end of the output
ReadEof ==
    /\ s_pc \in {"raw", "reading"}
    /\ s_unread = <<>>
    /\ s_pc' = "streamed"
    /\ UNCHANGED <<s_text, s_clean, s_again, s_unread, s_emitted, sanRest>>

NextSanitize ==
    \/ SanitizeOnce
    \/ SanitizeAgain
    \/ \E n \in 1..MaxTextLen : ReadChunk(n)
    \/ ReadEof

SpecSanitize == InitSanitize /\ [][NextSanitize]_vars

\* C15: the sanitizer is idempotent: for every text t,
\* sanitize(sanitize(t)) = sanitize(t).
C15_SanitizeIdempotent ==
    s_pc = "twice" => s_again = s_clean

\* C24: sanitizing chunk by chunk equals sanitizing the whole stream: for
\* every output and every split of it into read chunks, the concatenation
\* of the content frames is the sanitized whole output, so no ANSI sequence
\* reaches the client because it straddled a chunk boundary.
C24_ChunkwiseEqualsWhole ==
    s_pc = "streamed" => s_emitted = sanitize(s_text)

=============================================================================
